---- MODULE Spec2Model ----
(***************************************************************************)
(* Response handling of the IPTS host driver (src/src/receiver.c).         *)
(*                                                                         *)
(* The driver context (struct ipts_context) is the record ipts.  One       *)
(* invocation of ipts_receiver_callback is one step.  The C functions are  *)
(* operators on a "machine" record m:                                      *)
(*    m.ipts    the driver context while the invocation runs               *)
(*    m.calls   the calls made so far, in order; every entry carries the   *)
(*              Host Status at the moment of the call and the value the    *)
(*              call returned                                              *)
(*    m.oracle  the results the fallible collaborators are going to return *)
(*    m.rv      the value returned by the function that returned last      *)
(*    m.ret     the local variable ret of ipts_receiver_handle_response    *)
(*    m.err     the value returned by ipts_receiver_handle_error           *)
(* cmd.c, control.c, resources.c and hid.c are not part of the sources at  *)
(* hand: their effect on the context follows section 4 and 6 of the        *)
(* specification.                                                          *)
(***************************************************************************)
EXTENDS Integers, Sequences, FiniteSets, TLC

VARIABLES ipts, last, doorbell0, rings, bringup, window, inflight

vars == <<ipts, last, doorbell0, rings, bringup, window, inflight>>

\* ------------------------------------------------------------------ bounds

\* Ready-For-Data responses handled in singletouch mode in one behaviour.
MaxRings == 3

\* ------------------------------------------------------------ enumerations

IPTS_HOST_STATUS_STARTING == "STARTING"
IPTS_HOST_STATUS_STARTED == "STARTED"
IPTS_HOST_STATUS_STOPPING == "STOPPING"
IPTS_HOST_STATUS_STOPPED == "STOPPED"

HostStatus ==
    { IPTS_HOST_STATUS_STARTING, IPTS_HOST_STATUS_STARTED,
      IPTS_HOST_STATUS_STOPPING, IPTS_HOST_STATUS_STOPPED }

IPTS_MODE_SINGLETOUCH == "SINGLETOUCH"
IPTS_MODE_MULTITOUCH == "MULTITOUCH"

Modes == { IPTS_MODE_SINGLETOUCH, IPTS_MODE_MULTITOUCH }

IPTS_STATUS_SUCCESS == "SUCCESS"
IPTS_STATUS_COMPAT_CHECK_FAIL == "COMPAT_CHECK_FAIL"
IPTS_STATUS_INVALID_PARAMS == "INVALID_PARAMS"
IPTS_STATUS_SENSOR_DISABLED == "SENSOR_DISABLED"
IPTS_STATUS_SENSOR_EXPECTED_RESET == "SENSOR_EXPECTED_RESET"
IPTS_STATUS_SENSOR_UNEXPECTED_RESET == "SENSOR_UNEXPECTED_RESET"
\* Any status value the switch of ipts_receiver_handle_error does not name.
IPTS_STATUS_OTHER == "OTHER_STATUS"

Statuses ==
    { IPTS_STATUS_SUCCESS, IPTS_STATUS_COMPAT_CHECK_FAIL,
      IPTS_STATUS_INVALID_PARAMS, IPTS_STATUS_SENSOR_DISABLED,
      IPTS_STATUS_SENSOR_EXPECTED_RESET, IPTS_STATUS_SENSOR_UNEXPECTED_RESET,
      IPTS_STATUS_OTHER }

IPTS_RSP_GET_DEVICE_INFO == "GET_DEVICE_INFO"
IPTS_RSP_SET_MODE == "SET_MODE"
IPTS_RSP_SET_MEM_WINDOW == "SET_MEM_WINDOW"
IPTS_RSP_READY_FOR_DATA == "READY_FOR_DATA"
IPTS_RSP_FEEDBACK == "FEEDBACK"
IPTS_RSP_RESET_SENSOR == "RESET_SENSOR"
\* Any opcode the switch of ipts_receiver_handle_response does not name.
IPTS_RSP_OTHER == "OTHER_RSP"

Opcodes ==
    { IPTS_RSP_GET_DEVICE_INFO, IPTS_RSP_SET_MODE, IPTS_RSP_SET_MEM_WINDOW,
      IPTS_RSP_READY_FOR_DATA, IPTS_RSP_FEEDBACK, IPTS_RSP_RESET_SENSOR,
      IPTS_RSP_OTHER }

\* The doorbell is a u32.  TLC's integers are 32-bit signed, so a u32 is kept
\* as its two 16-bit halves: the value is hi * 2^16 + lo.
U16 == 2 ^ 16

u32(hi, lo) == [ hi |-> hi, lo |-> lo ]

U32_ZERO == u32(0, 0)
U32_MAX == u32(U16 - 1, U16 - 1)

\* x + n in u32 arithmetic (modulo 2^32), for 0 <= n < 2^16.
u32_add(x, n) ==
    LET lo == x.lo + n
    IN  u32((x.hi + (lo \div U16)) % U16, lo % U16)

\* Device-info payloads a response may carry; NoInfo is the zeroed context.
NoInfo == "none"
Payloads == { "infoA", "infoB" }

\* struct ipts_response as read from the transport.
\* Only a Get-Device-Info response has a payload this core looks at.
Responses ==
    { r \in [ code : Opcodes, status : Statuses,
              payload : Payloads \cup { NoInfo } ] :
        r.payload = NoInfo <=> r.code # IPTS_RSP_GET_DEVICE_INFO }

\* What is known of the response when no frame was read.
NoResponse == [ code |-> "-", status |-> "-", payload |-> NoInfo ]

\* Results of the fallible collaborators: 0 or a negative errno.
Results == { 0, -5 }

\* One dispatch calls at most three fallible collaborators
\* (ipts_resources_alloc, ipts_cmd_set_mem_window, ipts_control_stop).
Oracles == [ 1..3 -> Results ]

\* Results of mei_cldev_recv: an error, nothing, a frame.
RecvFailures == { -5, 0 }
RecvFrames == { 1 }

NoArg == ""

\* ------------------------------------------------------- machine plumbing

Machine(ctx, oracle) ==
    [ ipts |-> ctx, calls |-> <<>>, oracle |-> oracle,
      rv |-> 0, ret |-> 0, err |-> FALSE ]

\* A call (or a function entry) is recorded with the Host Status at that
\* moment and the value it returned.
Log(m, fn, arg, rv) ==
    [ m EXCEPT !.calls = Append(@, [ fn |-> fn, arg |-> arg, rv |-> rv,
                                     st |-> m.ipts.status ]),
               !.rv = rv ]

Enter(m, fn) == [ Log(m, fn, NoArg, 0) EXCEPT !.rv = m.rv ]

\* A fallible collaborator returns the next result of the oracle.
Fallible(m, fn, arg) ==
    [ Log(m, fn, arg, Head(m.oracle)) EXCEPT !.oracle = Tail(@) ]

Return(m, v) == [ m EXCEPT !.rv = v ]

\* -------------------------------------------------------------- kernel API

dev_err(m, msg) == [ Log(m, "dev_err", msg, 0) EXCEPT !.rv = m.rv ]

dev_info(m, msg) == [ Log(m, "dev_info", msg, 0) EXCEPT !.rv = m.rv ]

msleep(m) == [ Log(m, "msleep", NoArg, 0) EXCEPT !.rv = m.rv ]

complete_all(m) ==
    [ Log(m, "complete_all", NoArg, 0) EXCEPT !.rv = m.rv,
                                              !.ipts.on_device_ready = TRUE ]

mei_cldev_recv(m, n) == Log(m, "mei_cldev_recv", NoArg, n)

\* ----------------------------------------------------------- collaborators

ipts_cmd_set_mode(m, mode) == Fallible(m, "ipts_cmd_set_mode", mode)

ipts_cmd_set_mem_window(m) == Fallible(m, "ipts_cmd_set_mem_window", NoArg)

ipts_cmd_ready_for_data(m) == Fallible(m, "ipts_cmd_ready_for_data", NoArg)

ipts_resources_alloc(m) ==
    LET r == Fallible(m, "ipts_resources_alloc", NoArg)
    IN  r

ipts_resources_free(m) ==
    [ Log(m, "ipts_resources_free", NoArg, 0) EXCEPT !.rv = m.rv ]

ipts_hid_init(m) ==
    [ Log(m, "ipts_hid_init", NoArg, 0) EXCEPT !.rv = m.rv ]

ipts_hid_free(m) ==
    [ Log(m, "ipts_hid_free", NoArg, 0) EXCEPT !.rv = m.rv ]

\* Full bring-up: the host leaves Stopped and the pending restart is consumed.
ipts_control_start(m) ==
    LET r == Fallible(m, "ipts_control_start", NoArg)
    IN  IF r.rv = 0
        THEN [ r EXCEPT !.ipts.status = IPTS_HOST_STATUS_STARTING,
                        !.ipts.restart = FALSE ]
        ELSE r

\* Controlled shutdown: Host Status becomes Stopping.
ipts_control_stop(m) ==
    LET r == Fallible(m, "ipts_control_stop", NoArg)
    IN  IF r.rv = 0
        THEN [ r EXCEPT !.ipts.status = IPTS_HOST_STATUS_STOPPING ]
        ELSE r

\* Restart: a shutdown with the restart flag set.
ipts_control_restart(m) ==
    LET r == Fallible(m, "ipts_control_restart", NoArg)
    IN  IF r.rv = 0
        THEN [ r EXCEPT !.ipts.status = IPTS_HOST_STATUS_STOPPING,
                        !.ipts.restart = TRUE ]
        ELSE r

\* ---------------------------------------------------------------- handlers

\* Faulty variant: the handler selects the mode itself.
ipts_receiver_handle_get_device_info_selects_mode(m, rsp) ==
    LET e == Enter(m, "ipts_receiver_handle_get_device_info")
        c == [ e EXCEPT !.ipts.device_info = rsp.payload,
                        !.ipts.mode = IPTS_MODE_MULTITOUCH ]
    IN  ipts_cmd_set_mode(c, c.ipts.mode)

ipts_receiver_handle_get_device_info(m, rsp) ==
    LET e == Enter(m, "ipts_receiver_handle_get_device_info")
        c == [ e EXCEPT !.ipts.device_info = rsp.payload ]
    IN  ipts_cmd_set_mode(c, c.ipts.mode)

\* Faulty variant: an allocation failure is not looked at.
ipts_receiver_handle_set_mode_unchecked(m) ==
    LET e == Enter(m, "ipts_receiver_handle_set_mode")
        a == ipts_resources_alloc(e)
    IN  ipts_cmd_set_mem_window(a)

ipts_receiver_handle_set_mode(m) ==
    LET e == Enter(m, "ipts_receiver_handle_set_mode")
        a == ipts_resources_alloc(e)
    IN  IF a.rv # 0
        THEN Return(dev_err(a, "Failed to allocate resources"), a.rv)
        ELSE ipts_cmd_set_mem_window(a)

\* Faulty variant: the command is sent before anything else is done, and
\* the rest depends on it having been sent.
ipts_receiver_handle_set_mem_window_sends_first(m) ==
    LET e == Enter(m, "ipts_receiver_handle_set_mem_window")
        r == ipts_cmd_ready_for_data(e)
        s == [ r EXCEPT !.ipts.status = IPTS_HOST_STATUS_STARTED ]
    IN  IF r.rv # 0
        THEN r
        ELSE Return(complete_all(ipts_hid_init(s)), r.rv)

\* Faulty variant: the readiness condition is never signalled.
ipts_receiver_handle_set_mem_window_silent(m) ==
    LET e == Enter(m, "ipts_receiver_handle_set_mem_window")
        s == [ e EXCEPT !.ipts.status = IPTS_HOST_STATUS_STARTED ]
        h == ipts_hid_init(s)
    IN  ipts_cmd_ready_for_data(h)

ipts_receiver_handle_set_mem_window(m) ==
    LET e == Enter(m, "ipts_receiver_handle_set_mem_window")
        s == [ e EXCEPT !.ipts.status = IPTS_HOST_STATUS_STARTED ]
        h == ipts_hid_init(s)
        c == complete_all(h)
    IN  ipts_cmd_ready_for_data(c)

\* Faulty variant: the doorbell saturates instead of wrapping.
ipts_receiver_handle_ready_for_data_saturating(m) ==
    LET e == Enter(m, "ipts_receiver_handle_ready_for_data")
    IN  IF e.ipts.mode # IPTS_MODE_SINGLETOUCH
        THEN Return(e, 0)
        ELSE Return([ e EXCEPT !.ipts.doorbell =
                          IF @ = U32_MAX THEN @ ELSE u32_add(@, 1) ], 0)

\* Faulty variant: the doorbell is rung in every mode.
ipts_receiver_handle_ready_for_data_any_mode(m) ==
    LET e == Enter(m, "ipts_receiver_handle_ready_for_data")
    IN  Return([ e EXCEPT !.ipts.doorbell = u32_add(@, 1) ], 0)

ipts_receiver_handle_ready_for_data(m) ==
    LET e == Enter(m, "ipts_receiver_handle_ready_for_data")
    IN  IF e.ipts.mode # IPTS_MODE_SINGLETOUCH
        THEN Return(e, 0)
        ELSE Return([ e EXCEPT !.ipts.doorbell = u32_add(@, 1) ], 0)

\* Faulty variant: the mode test is the wrong way round.
ipts_receiver_handle_feedback_inverted(m, rsp) ==
    LET e == Enter(m, "ipts_receiver_handle_feedback")
    IN  IF e.ipts.mode # IPTS_MODE_SINGLETOUCH
        THEN ipts_cmd_ready_for_data(e)
        ELSE Return(e, 0)

ipts_receiver_handle_feedback(m, rsp) ==
    LET e == Enter(m, "ipts_receiver_handle_feedback")
    IN  IF e.ipts.mode = IPTS_MODE_SINGLETOUCH
        THEN ipts_cmd_ready_for_data(e)
        ELSE Return(e, 0)

\* Faulty variant: the Reset handler re-arms the readiness condition.
ipts_receiver_handle_reset_rearms(m) ==
    LET e == Enter(m, "ipts_receiver_handle_reset")
        s == [ e EXCEPT !.ipts.status = IPTS_HOST_STATUS_STOPPED,
                        !.ipts.on_device_ready = FALSE ]
    IN  IF s.ipts.restart
        THEN ipts_control_start(msleep(s))
        ELSE Return(ipts_hid_free(ipts_resources_free(s)), 0)

\* Faulty variant: the resources are released before the restart flag is
\* looked at.
ipts_receiver_handle_reset_frees_first(m) ==
    LET e == Enter(m, "ipts_receiver_handle_reset")
        s == [ e EXCEPT !.ipts.status = IPTS_HOST_STATUS_STOPPED ]
        f == ipts_resources_free(s)
    IN  IF f.ipts.restart
        THEN ipts_control_start(msleep(f))
        ELSE Return(ipts_hid_free(f), 0)

\* Faulty variant: the input device is never torn down.
ipts_receiver_handle_reset_keeps_hid(m) ==
    LET e == Enter(m, "ipts_receiver_handle_reset")
        s == [ e EXCEPT !.ipts.status = IPTS_HOST_STATUS_STOPPED ]
    IN  IF s.ipts.restart
        THEN ipts_control_start(msleep(s))
        ELSE Return(ipts_resources_free(s), 0)

ipts_receiver_handle_reset(m) ==
    LET e == Enter(m, "ipts_receiver_handle_reset")
        s == [ e EXCEPT !.ipts.status = IPTS_HOST_STATUS_STOPPED ]
    IN  IF s.ipts.restart
        THEN ipts_control_start(msleep(s))
        ELSE Return(ipts_hid_free(ipts_resources_free(s)), 0)

\* Faulty variant: invalid parameters are excused for every opcode.
ipts_receiver_handle_error_lenient(m, rsp) ==
    LET e == Enter(m, "ipts_receiver_handle_error")
        error ==
            CASE rsp.status \in { IPTS_STATUS_SUCCESS,
                                  IPTS_STATUS_COMPAT_CHECK_FAIL,
                                  IPTS_STATUS_INVALID_PARAMS } -> FALSE
              [] rsp.status \in { IPTS_STATUS_SENSOR_DISABLED,
                                  IPTS_STATUS_SENSOR_EXPECTED_RESET } ->
                    e.ipts.status # IPTS_HOST_STATUS_STOPPING
              [] OTHER -> TRUE
    IN  IF ~error
        THEN [ e EXCEPT !.err = FALSE ]
        ELSE [ dev_err(e, "Command failed") EXCEPT !.err = TRUE ]

ipts_receiver_handle_error(m, rsp) ==
    LET e == Enter(m, "ipts_receiver_handle_error")
        error ==
            CASE rsp.status \in { IPTS_STATUS_SUCCESS,
                                  IPTS_STATUS_COMPAT_CHECK_FAIL } -> FALSE
              [] rsp.status = IPTS_STATUS_INVALID_PARAMS ->
                    rsp.code # IPTS_RSP_FEEDBACK
              [] rsp.status \in { IPTS_STATUS_SENSOR_DISABLED,
                                  IPTS_STATUS_SENSOR_EXPECTED_RESET } ->
                    e.ipts.status # IPTS_HOST_STATUS_STOPPING
              [] OTHER -> TRUE
    IN  IF ~error
        THEN [ e EXCEPT !.err = FALSE ]
        ELSE [ dev_err(e, "Command failed") EXCEPT !.err = TRUE ]

\* Faulty variant: an opcode the switch does not name is a failure.
Route_rejects_unknown(m, rsp) ==
    CASE rsp.code = IPTS_RSP_GET_DEVICE_INFO ->
            ipts_receiver_handle_get_device_info(m, rsp)
      [] rsp.code = IPTS_RSP_SET_MODE -> ipts_receiver_handle_set_mode(m)
      [] rsp.code = IPTS_RSP_SET_MEM_WINDOW ->
            ipts_receiver_handle_set_mem_window(m)
      [] rsp.code = IPTS_RSP_READY_FOR_DATA ->
            ipts_receiver_handle_ready_for_data(m)
      [] rsp.code = IPTS_RSP_FEEDBACK -> ipts_receiver_handle_feedback(m, rsp)
      [] rsp.code = IPTS_RSP_RESET_SENSOR -> ipts_receiver_handle_reset(m)
      [] OTHER -> Return(m, -5)

\* The switch of ipts_receiver_handle_response: the handler's result is the
\* value assigned to ret.
Route(m, rsp) ==
    CASE rsp.code = IPTS_RSP_GET_DEVICE_INFO ->
            ipts_receiver_handle_get_device_info(m, rsp)
      [] rsp.code = IPTS_RSP_SET_MODE -> ipts_receiver_handle_set_mode(m)
      [] rsp.code = IPTS_RSP_SET_MEM_WINDOW ->
            ipts_receiver_handle_set_mem_window(m)
      [] rsp.code = IPTS_RSP_READY_FOR_DATA ->
            ipts_receiver_handle_ready_for_data(m)
      [] rsp.code = IPTS_RSP_FEEDBACK -> ipts_receiver_handle_feedback(m, rsp)
      [] rsp.code = IPTS_RSP_RESET_SENSOR -> ipts_receiver_handle_reset(m)
      [] OTHER -> Return(m, 0)

\* The tail of ipts_receiver_handle_response: what follows the switch.
AfterSwitch(h) ==
    LET r == [ h EXCEPT !.ret = h.rv ]
    IN  IF r.ret = 0
        THEN r
        ELSE LET s == ipts_control_stop(
                          dev_err(r, "Error while handling response"))
             IN  IF s.rv # 0 THEN dev_err(s, "Failed to stop IPTS") ELSE s

\* Faulty variant: the classifier runs before the reset status is looked at.
ipts_receiver_handle_response_classifies_first(m, rsp) ==
    LET e == Enter(m, "ipts_receiver_handle_response")
        c == ipts_receiver_handle_error(e, rsp)
    IN  IF c.err
        THEN c
        ELSE IF rsp.status = IPTS_STATUS_SENSOR_UNEXPECTED_RESET
        THEN LET r == ipts_control_restart(dev_info(c, "Sensor was reset"))
             IN  IF r.rv # 0 THEN dev_err(r, "Failed to restart IPTS") ELSE r
        ELSE AfterSwitch(Route(c, rsp))

\* Faulty variant: a classified error stops the device.
ipts_receiver_handle_response_stops_on_error(m, rsp) ==
    LET e == Enter(m, "ipts_receiver_handle_response")
    IN  IF rsp.status = IPTS_STATUS_SENSOR_UNEXPECTED_RESET
        THEN LET r == ipts_control_restart(dev_info(e, "Sensor was reset"))
             IN  IF r.rv # 0 THEN dev_err(r, "Failed to restart IPTS") ELSE r
        ELSE LET c == ipts_receiver_handle_error(e, rsp)
             IN  IF c.err
                 THEN ipts_control_stop(c)
                 ELSE AfterSwitch(Route(c, rsp))

\* Faulty variant: a failed Stop is tried again.
ipts_receiver_handle_response_retries_stop(m, rsp) ==
    LET e == Enter(m, "ipts_receiver_handle_response")
    IN  IF rsp.status = IPTS_STATUS_SENSOR_UNEXPECTED_RESET
        THEN LET r == ipts_control_restart(dev_info(e, "Sensor was reset"))
             IN  IF r.rv # 0 THEN dev_err(r, "Failed to restart IPTS") ELSE r
        ELSE LET c == ipts_receiver_handle_error(e, rsp)
             IN  IF c.err
                 THEN c
                 ELSE LET s == AfterSwitch(Route(c, rsp))
                      IN  IF s.ret # 0 /\ s.rv # 0
                          THEN ipts_control_stop(
                                   [ s EXCEPT !.oracle = <<0>> ])
                          ELSE s

ipts_receiver_handle_response(m, rsp) ==
    LET e == Enter(m, "ipts_receiver_handle_response")
    IN  IF rsp.status = IPTS_STATUS_SENSOR_UNEXPECTED_RESET
        THEN LET r == ipts_control_restart(dev_info(e, "Sensor was reset"))
             IN  IF r.rv # 0 THEN dev_err(r, "Failed to restart IPTS") ELSE r
        ELSE LET c == ipts_receiver_handle_error(e, rsp)
             IN  IF c.err
                 THEN c
                 ELSE AfterSwitch(Route(c, rsp))

\* Faulty variant: the callback also returns at once while the host is
\* Stopping.
ipts_receiver_callback_drops_when_stopping(m, n, rsp) ==
    IF m.ipts.status \in { IPTS_HOST_STATUS_STOPPED,
                           IPTS_HOST_STATUS_STOPPING }
    THEN m
    ELSE LET r == mei_cldev_recv(m, n)
         IN  IF r.rv <= 0
             THEN dev_err(r, "Error while reading response")
             ELSE ipts_receiver_handle_response(r, rsp)

\* Faulty variant: a read of nothing is taken for a frame.
ipts_receiver_callback_reads_nothing(m, n, rsp) ==
    IF m.ipts.status = IPTS_HOST_STATUS_STOPPED
    THEN m
    ELSE LET r == mei_cldev_recv(m, n)
         IN  IF r.rv < 0
             THEN dev_err(r, "Error while reading response")
             ELSE ipts_receiver_handle_response(r, rsp)

\* Faulty variant: the Host Status is not looked at.
ipts_receiver_callback_always_reads(m, n, rsp) ==
    LET r == mei_cldev_recv(m, n)
    IN  IF r.rv <= 0
        THEN dev_err(r, "Error while reading response")
        ELSE ipts_receiver_handle_response(r, rsp)

\* n is what mei_cldev_recv returns, rsp the frame it delivers when n > 0.
ipts_receiver_callback(m, n, rsp) ==
    IF m.ipts.status = IPTS_HOST_STATUS_STOPPED
    THEN m
    ELSE LET r == mei_cldev_recv(m, n)
         IN  IF r.rv <= 0
             THEN dev_err(r, "Error while reading response")
             ELSE ipts_receiver_handle_response(r, rsp)

\* ------------------------------------------------------------ observation

Has(calls, fn) == \E i \in DOMAIN calls : calls[i].fn = fn

Count(calls, fn) == Cardinality({ i \in DOMAIN calls : calls[i].fn = fn })

Index(calls, fn) == CHOOSE i \in DOMAIN calls : calls[i].fn = fn

Handlers ==
    { "ipts_receiver_handle_get_device_info", "ipts_receiver_handle_set_mode",
      "ipts_receiver_handle_set_mem_window",
      "ipts_receiver_handle_ready_for_data", "ipts_receiver_handle_feedback",
      "ipts_receiver_handle_reset" }

Commands ==
    { "ipts_cmd_set_mode", "ipts_cmd_set_mem_window",
      "ipts_cmd_ready_for_data" }

Collaborators ==
    Commands \cup { "ipts_resources_alloc", "ipts_resources_free",
                    "ipts_hid_init", "ipts_hid_free", "ipts_control_start",
                    "ipts_control_stop", "ipts_control_restart" }

\* The calls of an invocation that are among fns, by name and in order.
Only(calls, fns) ==
    LET s == SelectSeq(calls, LAMBDA c : c.fn \in fns)
    IN  [ i \in DOMAIN s |-> s[i].fn ]

\* The handler the invocation ran, if any.
Handler(calls) ==
    IF \E i \in DOMAIN calls : calls[i].fn \in Handlers
    THEN Only(calls, Handlers)[1]
    ELSE "-"

\* The commands issued and the Stop invocations of an invocation, in order.
Issued(calls) == Only(calls, Commands \cup { "ipts_control_stop" })

\* Every collaborator call of the invocation succeeded.
AllOk(calls) ==
    \A i \in DOMAIN calls : calls[i].fn \in Collaborators => calls[i].rv = 0

\* History: how far the sequence Get-Device-Info, Set-Mode, Set-Mem-Window of
\* handled responses with every call succeeding has come, and what was issued
\* since it began.
NoBringup == [ stage |-> 0, log |-> <<>> ]

Progress(b, calls) ==
    IF AllOk(calls) /\ Handler(calls) = "ipts_receiver_handle_get_device_info"
    THEN [ stage |-> 1, log |-> Issued(calls) ]
    ELSE IF /\ b.stage = 1
            /\ AllOk(calls)
            /\ Handler(calls) = "ipts_receiver_handle_set_mode"
    THEN [ stage |-> 2, log |-> b.log \o Issued(calls) ]
    ELSE IF /\ b.stage = 2
            /\ AllOk(calls)
            /\ Handler(calls) = "ipts_receiver_handle_set_mem_window"
    THEN [ stage |-> 3, log |-> b.log \o Issued(calls) ]
    ELSE NoBringup

\* History: the invocation handled a Set-Mode response, the allocation of the
\* buffers succeeded and the set-memory-window command was issued.
Configured(calls) ==
    /\ Handler(calls) = "ipts_receiver_handle_set_mode"
    /\ Has(calls, "ipts_resources_alloc")
    /\ calls[Index(calls, "ipts_resources_alloc")].rv = 0
    /\ Has(calls, "ipts_cmd_set_mem_window")

\* What is kept of an invocation: everything (one observed invocation) or a
\* summary (a run of many).
Observed(kind, entry, read, rsp, m) ==
    [ kind |-> kind, entry |-> entry,
      code |-> IF read THEN rsp.code ELSE "-",
      status |-> IF read THEN rsp.status ELSE "-",
      payload |-> IF read THEN rsp.payload ELSE NoInfo,
      calls |-> m.calls, ret |-> m.ret, err |-> m.err ]

\* The Host Status complete_all found when the invocation called it.
Signalled(calls) ==
    IF Has(calls, "complete_all")
    THEN calls[Index(calls, "complete_all")].st
    ELSE "-"

Summary(kind, m) ==
    [ kind |-> kind, handler |-> Handler(m.calls), ret |-> m.ret,
      issued |-> Issued(m.calls), signalled |-> Signalled(m.calls) ]

\* ------------------------------------------------------------------- state

\* The invocations of the callback that may be under way at the same time.
Invocations == { "first", "second" }

\* How far an invocation has come (pc), the frame it read (rsp) and the Host
\* Status its last call of the dispatcher found (at).
Idle == [ pc |-> "idle", rsp |-> NoResponse, at |-> "-" ]


\* The context as driver attach leaves it.  The mode is a parameter of the
\* driver instance; the doorbell register holds whatever the device left, here
\* two short of its largest value, so that it wraps within MaxRings rings.
Init ==
    /\ ipts \in [ status : { IPTS_HOST_STATUS_STOPPED },
                  mode : Modes,
                  device_info : { NoInfo },
                  restart : { FALSE },
                  on_device_ready : { FALSE },
                  doorbell : { u32(U16 - 1, U16 - 2) } ]
    /\ last = [ kind |-> "init", handler |-> "-", ret |-> 0, issued |-> <<>>,
                signalled |-> "-" ]
    /\ doorbell0 = ipts.doorbell
    /\ rings = 0
    /\ bringup = NoBringup
    /\ window = FALSE
    /\ inflight = [ p \in Invocations |-> Idle ]

\* ----------------------------------------------------------------- actions

\* The effect of an invocation that ended in machine m on the context and on
\* the history.
Invoke(m) ==
    /\ ipts' = m.ipts
    /\ rings' = IF Handler(m.calls) = "ipts_receiver_handle_ready_for_data"
                   /\ ipts.mode = IPTS_MODE_SINGLETOUCH
                THEN rings + 1
                ELSE rings
    /\ rings' <= MaxRings
    /\ bringup' = Progress(bringup, m.calls)
    /\ window' = (window \/ Configured(m.calls))
    /\ UNCHANGED <<doorbell0, inflight>>

\* The transport invokes the callback: n is the result of the read, rsp the
\* frame, oracle the results of the collaborators called on the way.
Callback(n, rsp, oracle) ==
    LET m == ipts_receiver_callback(Machine(ipts, oracle), n, rsp)
    IN  /\ Invoke(m)
        /\ last' = Summary("callback", m)

CallbackFrame ==
    \E rsp \in Responses, oracle \in Oracles, n \in RecvFrames :
        Callback(n, rsp, oracle)

CallbackNoFrame ==
    \E n \in RecvFailures :
        Callback(n, NoResponse, [ i \in 1..3 |-> 0 ])

\* Another execution context (driver attach, a user-triggered path) starts
\* the device.
ControlStart ==
    \E r \in Results :
        LET m == ipts_control_start(Machine(ipts, <<r>>))
        IN  /\ ipts.status = IPTS_HOST_STATUS_STOPPED
            /\ ipts' = m.ipts
            /\ last' = Summary("control_start", m)
            /\ bringup' = NoBringup
            /\ UNCHANGED <<doorbell0, rings, window, inflight>>

\* Another execution context (driver detach) stops the device.
ControlStop ==
    \E r \in Results :
        LET m == ipts_control_stop(Machine(ipts, <<r>>))
        IN  /\ ipts.status \in { IPTS_HOST_STATUS_STARTING,
                                 IPTS_HOST_STATUS_STARTED }
            /\ ipts' = m.ipts
            /\ last' = Summary("control_stop", m)
            /\ bringup' = NoBringup
            /\ UNCHANGED <<doorbell0, rings, window, inflight>>

Next == CallbackFrame \/ CallbackNoFrame \/ ControlStart \/ ControlStop

Spec == Init /\ [][Next]_vars

\* ------------------------------------------------- one observed invocation

\* The contexts an invocation of the callback can find: the combinations of
\* Host Status, restart flag and readiness that Spec reaches (Started is only
\* written together with the readiness signal, and Start clears the restart
\* flag), with the doorbell at either end of its range and the Device Info
\* absent or as an earlier Get-Device-Info response left it.
Contexts ==
    { c \in [ status : HostStatus, mode : Modes,
              device_info : Payloads \cup { NoInfo },
              restart : BOOLEAN, on_device_ready : BOOLEAN,
              doorbell : { U32_ZERO, U32_MAX } ] :
        /\ c.status = IPTS_HOST_STATUS_STARTED => c.on_device_ready
        /\ c.status = IPTS_HOST_STATUS_STARTING => ~c.restart }

DispatchInit ==
    /\ ipts \in Contexts
    /\ last = Observed("init", ipts, FALSE, NoResponse, Machine(ipts, <<>>))
    /\ doorbell0 = ipts.doorbell
    /\ rings = 0
    /\ bringup = NoBringup
    /\ window = FALSE
    /\ inflight = [ p \in Invocations |-> Idle ]

Dispatch(n, rsp, oracle) ==
    LET m == ipts_receiver_callback(Machine(ipts, oracle), n, rsp)
    IN  /\ last.kind = "init"
        /\ Invoke(m)
        /\ last' = Observed("callback", ipts,
                             Has(m.calls, "ipts_receiver_handle_response"),
                             rsp, m)

DispatchFrame ==
    \E rsp \in Responses, oracle \in Oracles, n \in RecvFrames :
        Dispatch(n, rsp, oracle)

DispatchNoFrame ==
    \E n \in RecvFailures :
        Dispatch(n, NoResponse, [ i \in 1..3 |-> 0 ])

DispatchNext == DispatchFrame \/ DispatchNoFrame

DispatchSpec == DispatchInit /\ [][DispatchNext]_vars

\* ------------------------------------------------ overlapping invocations

\* The frames of the overlapping invocations: two handlers that write Host
\* Status and one that does not, with a status the classifier passes and one
\* it passes only while Stopping.
RaceFrames ==
    { r \in Responses :
        /\ r.code \in { IPTS_RSP_SET_MEM_WINDOW, IPTS_RSP_RESET_SENSOR,
                        IPTS_RSP_FEEDBACK }
        /\ r.status \in { IPTS_STATUS_SUCCESS, IPTS_STATUS_SENSOR_DISABLED } }

\* The test of Host Status at the head of ipts_receiver_callback.
RaceCheck(p) ==
    /\ inflight[p].pc = "idle"
    /\ inflight' = [ inflight EXCEPT ![p].pc =
                         IF ipts.status = IPTS_HOST_STATUS_STOPPED
                         THEN "idle"
                         ELSE "recv" ]
    /\ UNCHANGED <<ipts, last, doorbell0, rings, bringup, window>>

\* The read: a failure ends the invocation, a frame is kept for the
\* dispatcher.
RaceRecv(p) ==
    /\ inflight[p].pc = "recv"
    /\ \/ \E n \in RecvFailures :
              inflight' = [ inflight EXCEPT ![p].pc = "idle" ]
       \/ \E n \in RecvFrames, rsp \in RaceFrames :
              inflight' = [ inflight EXCEPT ![p].pc = "dispatch",
                                            ![p].rsp = rsp ]
    /\ UNCHANGED <<ipts, last, doorbell0, rings, bringup, window>>

\* The call of ipts_receiver_handle_response, on the context as it is by
\* then.
RaceDispatch(p) ==
    /\ inflight[p].pc = "dispatch"
    /\ \E oracle \in Oracles :
           LET m == ipts_receiver_handle_response(Machine(ipts, oracle),
                                                  inflight[p].rsp)
           IN  ipts' = m.ipts
    /\ inflight' = [ inflight EXCEPT ![p] = [ pc |-> "idle",
                                              rsp |-> NoResponse,
                                              at |-> ipts.status ] ]
    /\ UNCHANGED <<last, doorbell0, rings, bringup, window>>

RaceNext ==
    \/ \E p \in Invocations : RaceCheck(p)
    \/ \E p \in Invocations : RaceRecv(p)
    \/ \E p \in Invocations : RaceDispatch(p)
    \/ ControlStart
    \/ ControlStop

RaceSpec == Init /\ [][RaceNext]_vars

\* -------------------------------------------- the error classifier alone

\* ipts_receiver_handle_error applied to one response in one context.
Classify(rsp) ==
    LET m == ipts_receiver_handle_error(Machine(ipts, <<>>), rsp)
    IN  /\ last.kind = "init"
        /\ ipts' = m.ipts
        /\ last' = Observed("classify", ipts, TRUE, rsp, m)
        /\ UNCHANGED <<doorbell0, rings, bringup, window, inflight>>

ClassifyNext == \E rsp \in Responses : Classify(rsp)

ClassifySpec == DispatchInit /\ [][ClassifyNext]_vars

\* ------------------------------------------------------------------ claims

\* The value the first call of fn returned, and the Host Status it found.
Rv(calls, fn) == calls[Index(calls, fn)].rv

St(calls, fn) == calls[Index(calls, fn)].st

\* The collaborators an invocation called, in order.
Called(calls) == Only(calls, Collaborators)

IsCallback == last.kind = "callback"

\* A frame was read and handed to the dispatcher.
Dispatched == IsCallback /\ Has(last.calls, "ipts_receiver_handle_response")

\* C1: a callback invoked while Host Status is Stopped reads no frame, enters
\* neither the dispatcher nor a handler, calls nothing and leaves the context
\* as it found it.
C1_StoppedIsDiscarded ==
    (IsCallback /\ last.entry.status = IPTS_HOST_STATUS_STOPPED) =>
        /\ last.calls = <<>>
        /\ last.code = "-"
        /\ ipts = last.entry

C1_Witness ==
    /\ IsCallback
    /\ last.entry.status = IPTS_HOST_STATUS_STOPPED
    /\ last.entry.restart
    /\ last.calls = <<>>

\* C2: a dispatched response whose status is sensor-unexpected-reset calls
\* Restart exactly once and nothing else: no classifier, no handler, no Stop,
\* whatever the opcode and whether or not Restart succeeds.
C2_UnexpectedResetRestarts ==
    (Dispatched /\ last.status = IPTS_STATUS_SENSOR_UNEXPECTED_RESET) =>
        /\ last.entry.status # IPTS_HOST_STATUS_STOPPED
        /\ Called(last.calls) = << "ipts_control_restart" >>
        /\ ~Has(last.calls, "ipts_receiver_handle_error")
        /\ Handler(last.calls) = "-"

C2_Witness ==
    /\ Dispatched
    /\ last.status = IPTS_STATUS_SENSOR_UNEXPECTED_RESET
    /\ last.code = IPTS_RSP_SET_MEM_WINDOW
    /\ Rv(last.calls, "ipts_control_restart") # 0
    /\ Count(last.calls, "ipts_control_restart") = 1

\* The decision table of the error classifier.
Tabulated(status, code, host) ==
    IF status \in { IPTS_STATUS_SUCCESS, IPTS_STATUS_COMPAT_CHECK_FAIL }
    THEN FALSE
    ELSE IF status = IPTS_STATUS_INVALID_PARAMS
    THEN code # IPTS_RSP_FEEDBACK
    ELSE IF status \in { IPTS_STATUS_SENSOR_DISABLED,
                         IPTS_STATUS_SENSOR_EXPECTED_RESET }
    THEN host # IPTS_HOST_STATUS_STOPPING
    ELSE TRUE

\* C3: for every status, opcode and Host Status the classifier returns the
\* tabulated value, and it leaves the context as it found it.
C3_ClassifierTable ==
    last.kind = "classify" =>
        /\ last.err = Tabulated(last.status, last.code, last.entry.status)
        /\ ipts = last.entry
        /\ Called(last.calls) = <<>>

C3_Witness ==
    /\ last.kind = "classify"
    /\ last.status = IPTS_STATUS_INVALID_PARAMS
    /\ last.code = IPTS_RSP_FEEDBACK
    /\ ~last.err

\* C4: a dispatched response that is classified as an error runs no handler,
\* calls no collaborator (no command, no Stop, Restart or Start) and leaves
\* the context as it found it.
C4_ProtocolFaultAborts ==
    ( /\ Dispatched
      /\ last.status # IPTS_STATUS_SENSOR_UNEXPECTED_RESET
      /\ last.err ) =>
        /\ Handler(last.calls) = "-"
        /\ Called(last.calls) = <<>>
        /\ ipts = last.entry

C4_Witness ==
    /\ Dispatched
    /\ last.err
    /\ last.status = IPTS_STATUS_SENSOR_DISABLED
    /\ last.code = IPTS_RSP_RESET_SENSOR
    /\ last.entry.status = IPTS_HOST_STATUS_STARTED

\* C5: Stop is invoked exactly once when the routed handler returned non-zero
\* (whether or not Stop succeeds) and never otherwise; only a handler makes
\* ret non-zero.
C5_StopIffHandlerFailed ==
    IsCallback =>
        /\ Count(last.calls, "ipts_control_stop") =
               IF last.ret # 0 THEN 1 ELSE 0
        /\ last.ret # 0 => Handler(last.calls) # "-"

C5_Witness ==
    /\ IsCallback
    /\ Handler(last.calls) = "ipts_receiver_handle_reset"
    /\ Count(last.calls, "ipts_control_start") = 1
    /\ Count(last.calls, "ipts_control_stop") = 1
    /\ Rv(last.calls, "ipts_control_start") # 0
    /\ Rv(last.calls, "ipts_control_stop") # 0

\* C6: the Set-Mode handler issues no set-memory-window command when the
\* allocation fails, and Stop is then invoked once; when the allocation
\* succeeds it issues exactly one, whose result is the handler's.
C6_SetModeAllocation ==
    (IsCallback /\ Handler(last.calls) = "ipts_receiver_handle_set_mode") =>
        /\ Count(last.calls, "ipts_resources_alloc") = 1
        /\ IF Rv(last.calls, "ipts_resources_alloc") # 0
           THEN /\ Count(last.calls, "ipts_cmd_set_mem_window") = 0
                /\ Count(last.calls, "ipts_control_stop") = 1
           ELSE /\ Count(last.calls, "ipts_cmd_set_mem_window") = 1
                /\ last.ret = Rv(last.calls, "ipts_cmd_set_mem_window")

C6_Witness ==
    /\ IsCallback
    /\ Handler(last.calls) = "ipts_receiver_handle_set_mode"
    /\ Rv(last.calls, "ipts_resources_alloc") # 0
    /\ Count(last.calls, "ipts_control_stop") = 1

\* C7: once non-error Get-Device-Info, Set-Mode and Set-Mem-Window responses
\* have been handled in that order with every collaborator call succeeding,
\* Host Status is Started, the readiness condition is signalled, and the
\* commands issued since the first of them are one set-mode, one
\* set-memory-window and one ready-for-data, with no Stop.
C7_BringUp ==
    bringup.stage = 3 =>
        /\ ipts.status = IPTS_HOST_STATUS_STARTED
        /\ ipts.on_device_ready
        /\ bringup.log = << "ipts_cmd_set_mode", "ipts_cmd_set_mem_window",
                            "ipts_cmd_ready_for_data" >>

C7_Witness ==
    /\ bringup.stage = 3
    /\ ipts.status = IPTS_HOST_STATUS_STARTED
    /\ ipts.device_info \in Payloads

\* C8: the Reset handler with the restart flag set writes Stopped first, then
\* sleeps, then calls Start once, all with Host Status Stopped, and neither
\* frees the resources nor tears down the input device.
C8_ResetWithRestart ==
    ( /\ IsCallback
      /\ Handler(last.calls) = "ipts_receiver_handle_reset"
      /\ last.entry.restart ) =>
        LET h == Index(last.calls, "ipts_receiver_handle_reset")
        IN  /\ Len(last.calls) >= h + 2
            /\ last.calls[h + 1].fn = "msleep"
            /\ last.calls[h + 1].st = IPTS_HOST_STATUS_STOPPED
            /\ last.calls[h + 2].fn = "ipts_control_start"
            /\ last.calls[h + 2].st = IPTS_HOST_STATUS_STOPPED
            /\ Count(last.calls, "ipts_control_start") = 1
            /\ Count(last.calls, "ipts_resources_free") = 0
            /\ Count(last.calls, "ipts_hid_free") = 0

C8_Witness ==
    /\ IsCallback
    /\ Handler(last.calls) = "ipts_receiver_handle_reset"
    /\ last.entry.restart
    /\ last.entry.status = IPTS_HOST_STATUS_STARTED
    /\ Rv(last.calls, "ipts_control_start") = 0

\* C9: the Reset handler with the restart flag clear leaves Host Status
\* Stopped, frees the resources once and tears down the input device once,
\* both after the status write, never calls Start, reports success, and Stop
\* is not invoked.
C9_ResetWithoutRestart ==
    ( /\ IsCallback
      /\ Handler(last.calls) = "ipts_receiver_handle_reset"
      /\ ~last.entry.restart ) =>
        /\ ipts.status = IPTS_HOST_STATUS_STOPPED
        /\ Called(last.calls) = << "ipts_resources_free", "ipts_hid_free" >>
        /\ St(last.calls, "ipts_resources_free") = IPTS_HOST_STATUS_STOPPED
        /\ St(last.calls, "ipts_hid_free") = IPTS_HOST_STATUS_STOPPED
        /\ last.ret = 0

C9_Witness ==
    /\ IsCallback
    /\ Handler(last.calls) = "ipts_receiver_handle_reset"
    /\ ~last.entry.restart
    /\ last.entry.status = IPTS_HOST_STATUS_STARTED
    /\ ipts.status = IPTS_HOST_STATUS_STOPPED

\* x + n modulo 2^32, case by case.
PlusMod32(x, n) ==
    IF x.lo + n < U16 THEN u32(x.hi, x.lo + n)
    ELSE IF x.hi + 1 < U16 THEN u32(x.hi + 1, x.lo + n - U16)
    ELSE u32(0, x.lo + n - U16)

\* C10: in singletouch mode, after N handled Ready-For-Data responses the
\* doorbell is its first value plus N modulo 2^32, and each of them reported
\* success and issued no command.
C10_DoorbellCounts ==
    ipts.mode = IPTS_MODE_SINGLETOUCH =>
        /\ ipts.doorbell = PlusMod32(doorbell0, rings)
        /\ last.handler = "ipts_receiver_handle_ready_for_data" =>
               (last.ret = 0 /\ last.issued = <<>>)

C10_Witness ==
    /\ ipts.mode = IPTS_MODE_SINGLETOUCH
    /\ last.handler = "ipts_receiver_handle_ready_for_data"
    /\ rings = 3
    /\ doorbell0 = u32(U16 - 1, U16 - 2)
    /\ ipts.doorbell = u32(0, 1)

\* C11: in a mode other than singletouch a handled Ready-For-Data response
\* changes nothing in the context (the doorbell included), calls no
\* collaborator (so no Stop) and reports success.
C11_ReadyForDataIdle ==
    ( /\ IsCallback
      /\ Handler(last.calls) = "ipts_receiver_handle_ready_for_data"
      /\ last.entry.mode # IPTS_MODE_SINGLETOUCH ) =>
        /\ ipts = last.entry
        /\ Called(last.calls) = <<>>
        /\ last.ret = 0

C11_Witness ==
    /\ IsCallback
    /\ Handler(last.calls) = "ipts_receiver_handle_ready_for_data"
    /\ last.entry.mode = IPTS_MODE_MULTITOUCH
    /\ last.entry.doorbell = U32_MAX
    /\ ipts.doorbell = U32_MAX

\* C12: a handled Feedback response issues exactly one ready-for-data command
\* in singletouch mode, whose result is the handler's (so that a failed send
\* is followed by Stop), and none in any other mode, where it reports
\* success; the handler itself writes neither the doorbell nor Host Status.
C12_FeedbackByMode ==
    ( /\ IsCallback
      /\ Handler(last.calls) = "ipts_receiver_handle_feedback" ) =>
        /\ IF last.entry.mode = IPTS_MODE_SINGLETOUCH
           THEN /\ Only(last.calls, Commands) = << "ipts_cmd_ready_for_data" >>
                /\ last.ret = Rv(last.calls, "ipts_cmd_ready_for_data")
                /\ Count(last.calls, "ipts_control_stop") =
                       IF Rv(last.calls, "ipts_cmd_ready_for_data") # 0
                       THEN 1 ELSE 0
           ELSE /\ Called(last.calls) = <<>>
                /\ last.ret = 0
        /\ ipts.doorbell = last.entry.doorbell
        /\ \A i \in DOMAIN last.calls : last.calls[i].st = last.entry.status
        /\ last.ret = 0 => ipts = last.entry

C12_Witness ==
    /\ IsCallback
    /\ Handler(last.calls) = "ipts_receiver_handle_feedback"
    /\ last.entry.mode = IPTS_MODE_SINGLETOUCH
    /\ Count(last.calls, "ipts_cmd_ready_for_data") = 1
    /\ Rv(last.calls, "ipts_cmd_ready_for_data") # 0
    /\ Count(last.calls, "ipts_control_stop") = 1

\* C13: a response that passes classification and whose opcode the switch
\* does not name changes nothing, calls no collaborator and reports success.
C13_UnknownOpcodeIsNoOp ==
    ( /\ Dispatched
      /\ last.code = IPTS_RSP_OTHER
      /\ last.status # IPTS_STATUS_SENSOR_UNEXPECTED_RESET
      /\ ~last.err ) =>
        /\ Handler(last.calls) = "-"
        /\ Called(last.calls) = <<>>
        /\ last.ret = 0
        /\ ipts = last.entry

C13_Witness ==
    /\ Dispatched
    /\ last.code = IPTS_RSP_OTHER
    /\ last.status = IPTS_STATUS_SENSOR_EXPECTED_RESET
    /\ last.entry.status = IPTS_HOST_STATUS_STOPPING
    /\ ~last.err

\* C14: when the host is not Stopped and the read returns zero or less, the
\* dispatcher is not entered, no collaborator is called and the context is
\* as it was.
C14_ReadFailureIsDropped ==
    ( /\ IsCallback
      /\ Has(last.calls, "mei_cldev_recv")
      /\ Rv(last.calls, "mei_cldev_recv") <= 0 ) =>
        /\ last.entry.status # IPTS_HOST_STATUS_STOPPED
        /\ ~Has(last.calls, "ipts_receiver_handle_response")
        /\ ~Has(last.calls, "ipts_receiver_handle_error")
        /\ Handler(last.calls) = "-"
        /\ Called(last.calls) = <<>>
        /\ ipts = last.entry

C14_Witness ==
    /\ IsCallback
    /\ Has(last.calls, "mei_cldev_recv")
    /\ Rv(last.calls, "mei_cldev_recv") = 0
    /\ last.entry.status = IPTS_HOST_STATUS_STARTED

\* C18: a handled Set-Mem-Window response sets Host Status to Started, then
\* initialises the input device, then signals readiness, and only then
\* issues its one ready-for-data command, whatever that command returns;
\* when the command fails, Stop is called with Host Status Started and
\* readiness signalled.
C18_SetMemWindowOrder ==
    ( /\ IsCallback
      /\ Handler(last.calls) = "ipts_receiver_handle_set_mem_window" ) =>
        LET c == last.calls
            i == Index(c, "ipts_receiver_handle_set_mem_window")
        IN  /\ Len(c) >= i + 3
            /\ c[i + 1].fn = "ipts_hid_init"
            /\ c[i + 1].st = IPTS_HOST_STATUS_STARTED
            /\ c[i + 2].fn = "complete_all"
            /\ c[i + 2].st = IPTS_HOST_STATUS_STARTED
            /\ c[i + 3].fn = "ipts_cmd_ready_for_data"
            /\ c[i + 3].st = IPTS_HOST_STATUS_STARTED
            /\ Count(c, "ipts_hid_init") = 1
            /\ Count(c, "complete_all") = 1
            /\ Count(c, "ipts_cmd_ready_for_data") = 1
            /\ last.ret = c[i + 3].rv
            /\ ipts.on_device_ready
            /\ IF c[i + 3].rv # 0
               THEN /\ Count(c, "ipts_control_stop") = 1
                    /\ Index(c, "ipts_control_stop") > i + 3
                    /\ St(c, "ipts_control_stop") = IPTS_HOST_STATUS_STARTED
               ELSE /\ Count(c, "ipts_control_stop") = 0
                    /\ ipts.status = IPTS_HOST_STATUS_STARTED

C18_Witness ==
    /\ IsCallback
    /\ Handler(last.calls) = "ipts_receiver_handle_set_mem_window"
    /\ last.entry.status = IPTS_HOST_STATUS_STARTING
    /\ ~last.entry.on_device_ready
    /\ Count(last.calls, "ipts_cmd_ready_for_data") = 1
    /\ Rv(last.calls, "ipts_cmd_ready_for_data") # 0
    /\ Count(last.calls, "ipts_control_stop") = 1
    /\ St(last.calls, "ipts_control_stop") = IPTS_HOST_STATUS_STARTED
    /\ ipts.on_device_ready

\* C20: no invocation of the callback changes the Operating Mode; a handled
\* Get-Device-Info response leaves its payload in Device Info and issues
\* exactly one command, set-mode with the mode the context already had; an
\* invocation that does not run that handler leaves Device Info as it was.
C20_ModeIsOnlyRead ==
    IsCallback =>
        /\ ipts.mode = last.entry.mode
        /\ IF Handler(last.calls) = "ipts_receiver_handle_get_device_info"
           THEN /\ ipts.device_info = last.payload
                /\ Only(last.calls, Commands) = << "ipts_cmd_set_mode" >>
                /\ last.calls[Index(last.calls, "ipts_cmd_set_mode")].arg =
                       last.entry.mode
                /\ last.ret = Rv(last.calls, "ipts_cmd_set_mode")
           ELSE ipts.device_info = last.entry.device_info

C20_Witness ==
    /\ IsCallback
    /\ Handler(last.calls) = "ipts_receiver_handle_get_device_info"
    /\ last.entry.mode = IPTS_MODE_SINGLETOUCH
    /\ last.entry.device_info = "infoA"
    /\ last.payload = "infoB"
    /\ ipts.device_info = "infoB"
    /\ ipts.mode = IPTS_MODE_SINGLETOUCH

\* The calls of an invocation made after Host Status was first seen to be s.
After(calls, s) ==
    IF \E i \in DOMAIN calls : calls[i].st = s
    THEN LET i == CHOOSE k \in DOMAIN calls :
                      /\ calls[k].st = s
                      /\ \A j \in 1..(k - 1) : calls[j].st # s
         IN  SubSeq(calls, i, Len(calls))
    ELSE <<>>

\* C17 as stated: a callback invoked while Host Status is Stopped or Stopping
\* reads no frame and dispatches nothing.
C17_DroppedWhenStoppedOrStopping ==
    ( /\ IsCallback
      /\ last.entry.status \in { IPTS_HOST_STATUS_STOPPED,
                                 IPTS_HOST_STATUS_STOPPING } ) =>
        /\ ~Has(last.calls, "mei_cldev_recv")
        /\ ~Has(last.calls, "ipts_receiver_handle_response")

\* C17, amended: a callback invoked while Host Status is Stopped reads no
\* frame and dispatches nothing; one invoked while Host Status is Stopping
\* still reads, and dispatches the frame it read; and a dispatch during which
\* Host Status becomes Stopped (the Reset handler) still makes the rest of
\* its calls, the restart or the release of the resources, with Host Status
\* Stopped.
C17_DroppedOnlyWhenStopped ==
    IsCallback =>
        /\ last.entry.status = IPTS_HOST_STATUS_STOPPED =>
               /\ ~Has(last.calls, "mei_cldev_recv")
               /\ ~Has(last.calls, "ipts_receiver_handle_response")
        /\ last.entry.status = IPTS_HOST_STATUS_STOPPING =>
               /\ Count(last.calls, "mei_cldev_recv") = 1
               /\ Has(last.calls, "ipts_receiver_handle_response") <=>
                      Rv(last.calls, "mei_cldev_recv") > 0
        /\ Handler(last.calls) = "ipts_receiver_handle_reset" =>
               Called(After(last.calls, IPTS_HOST_STATUS_STOPPED)) \in
                   IF last.entry.restart
                   THEN { << "ipts_control_start" >>,
                          << "ipts_control_start", "ipts_control_stop" >> }
                   ELSE { << "ipts_resources_free", "ipts_hid_free" >> }

C17_Witness ==
    /\ IsCallback
    /\ last.entry.status = IPTS_HOST_STATUS_STOPPING
    /\ last.entry.restart
    /\ Handler(last.calls) = "ipts_receiver_handle_reset"
    /\ Called(After(last.calls, IPTS_HOST_STATUS_STOPPED)) =
           << "ipts_control_start" >>
    /\ ipts.status = IPTS_HOST_STATUS_STARTING

\* C19: no step of the receiver or of Start and Stop takes the readiness
\* condition from signalled back to unsignalled, and the step that signals
\* it is a callback that ran the Set-Mem-Window handler and called
\* complete_all with Host Status already Started.
C19_ReadinessIsMonotone ==
    [][ /\ ipts.on_device_ready => ipts'.on_device_ready
        /\ (~ipts.on_device_ready /\ ipts'.on_device_ready) =>
               /\ last'.kind = "callback"
               /\ last'.handler = "ipts_receiver_handle_set_mem_window"
               /\ last'.signalled = IPTS_HOST_STATUS_STARTED
        /\ last'.signalled # "-" =>
               last'.handler = "ipts_receiver_handle_set_mem_window" ]_vars

C19_Witness ==
    /\ ipts.on_device_ready
    /\ ipts.status = IPTS_HOST_STATUS_STOPPED
    /\ last.kind = "callback"
    /\ last.handler = "ipts_receiver_handle_reset"
    /\ last.issued = <<>>

\* C15: whenever Host Status is Started, an earlier invocation handled a
\* Set-Mode response with the allocation succeeding and the
\* set-memory-window command issued.
C15_StartedOnlyAfterWindow ==
    ipts.status = IPTS_HOST_STATUS_STARTED => window

\* C16: in every interleaving of the invocations of the callback with each
\* other and with Start and Stop, no call of the dispatcher (classification
\* and handler) finds Host Status Stopped.
C16_NothingProcessedWhileStopped ==
    \A p \in Invocations : inflight[p].at # IPTS_HOST_STATUS_STOPPED

====
